---- MODULE Spec2Model ----
(***************************************************************************)
(* Model of src/lobsters.py: one scheduled run of update_calendar() after  *)
(* another.  A run extracts the schedule (extract_sf_locations), filters   *)
(* it against the persisted watermark, and reconciles it into the calendar *)
(* (FoodTruckCalendar).  The browser service, the text-extraction service  *)
(* and the calendar service are external: each call to them either         *)
(* succeeds or raises, and what they return is drawn from bounded sets.    *)
(*                                                                         *)
(* Strings "MM-DD" are modelled as the tuple of their four digits          *)
(* <<M, M, D, D>> (the dash sits at a fixed position and does not affect   *)
(* the order); Python's None and the empty string are both the empty       *)
(* tuple, as both are falsy where the code tests them.                     *)
(***************************************************************************)
EXTENDS Integers, Sequences, FiniteSets, TLC

VARIABLES
    pc,                  \* position of the run in update_calendar / extract_sf_locations
    wmFile,              \* /credentials/latest_parsed_date.json: the 'date' value, None if absent
    calIdFile,           \* whether /credentials/calendar_id.txt exists
    latest_parsed_date,  \* local of extract_sf_locations
    browser,             \* the remote browser session: "unbound", "open", "closed"
    response,            \* what the text-extraction call produced in this run
    sf_locations,        \* value returned by extract_sf_locations (a dict; see returned)
    returned,            \* "pending", "dict" or "None": kind of the returned value
    calendar_id,         \* FoodTruckCalendar.calendar_id
    calls,               \* calendar API calls issued by this run, in order
    events,              \* the items of the list response of this run
    toDelete,            \* items not yet visited by the delete loop
    pending,             \* (date, entry) pairs not yet visited by the insert loop
    outcome,             \* how the last run ended: "none", "aborted", "raised", "updated"
    wmAtStart,           \* the persisted watermark when this run started
    wrote                \* whether this run rewrote the watermark file

vars == <<pc, wmFile, calIdFile, latest_parsed_date, browser, response,
          sf_locations, returned, calendar_id, calls, events, toDelete,
          pending, outcome, wmAtStart, wrote>>

----------------------------------------------------------------------------
(* Bounds of the model *)

\* most entries listed under one date key of an extracted schedule
MaxEntries == 1

\* the date keys the extraction service may return: "09-30", "10-01", "12-31"
DateKeys == { <<0, 9, 3, 0>>, <<1, 0, 0, 1>>, <<1, 2, 3, 1>> }

\* events the calendar may already hold, each with the date key of its day,
\* in the order the list call returns them
ExistingEvents == << [id |-> "ev1", date |-> <<0, 9, 3, 0>>],
                     [id |-> "ev2", date |-> <<1, 0, 0, 1>>] >>

----------------------------------------------------------------------------
(* Program constants and values *)

None == << >>

\* create_events(self, schedule, year=2024)
year == 2024

\* the event fields create_events reads, in the order it reads them
RequiredFields == <<"start_time", "end_time", "location", "maps_url", "title">>

FieldSet == { RequiredFields[i] : i \in 1..Len(RequiredFields) }

\* an entry carrying every field, and the entry lacking field f
FullEntry == [f \in FieldSet |-> "v"]

Without(f) == [g \in FieldSet \ {f} |-> "v"]

----------------------------------------------------------------------------
(* Python string and date primitives *)

\* a < b on strings: lexicographic, a proper prefix is smaller
RECURSIVE StrLess(_, _)
StrLess(a, b) ==
    IF b = << >> THEN FALSE
    ELSE IF a = << >> THEN TRUE
    ELSE IF Head(a) # Head(b) THEN Head(a) < Head(b)
    ELSE StrLess(Tail(a), Tail(b))

\* max(all_dates)
StrMax(S) == CHOOSE x \in S : \A y \in S : ~StrLess(x, y)

\* sorted(schedule.keys())
RECURSIVE Sorted(_)
Sorted(S) ==
    IF S = {} THEN << >>
    ELSE LET m == CHOOSE x \in S : \A y \in S : ~StrLess(y, x)
         IN  <<m>> \o Sorted(S \ {m})

\* int(date.split('-')[0]) and int(date.split('-')[1])
MonthOf(d) == 10 * d[1] + d[2]

DayOf(d) == 10 * d[3] + d[4]

IsLeap(y) == (y % 4 = 0 /\ y % 100 # 0) \/ y % 400 = 0

DaysInMonth(y, m) ==
    IF m = 2 THEN (IF IsLeap(y) THEN 29 ELSE 28)
    ELSE IF m \in {4, 6, 9, 11} THEN 30 ELSE 31

RECURSIVE DaysBefore(_, _)
DaysBefore(y, m) == IF m = 1 THEN 0 ELSE DaysBefore(y, m - 1) + DaysInMonth(y, m - 1)

\* datetime(y, m, d) as the number of whole days since January 1st of y, 00:00
DateTime(y, m, d) == DaysBefore(y, m) + d - 1

----------------------------------------------------------------------------
(* What the external services may answer *)

\* the entry lists a date key may carry, all malformed entries lacking field f
EntryLists(f) == UNION { [1..n -> {FullEntry, Without(f)}] : n \in 0..MaxEntries }

\* the 'locations' objects: date key -> list of entries
Schedules == UNION { UNION { [S -> EntryLists(f)] : S \in SUBSET DateKeys } : f \in FieldSet }

\* the outcomes of lines 67-81: the text parses and has both keys ("ok"), the
\* text is not JSON, or it lacks 'locations', or it lacks 'dates'.  The 'dates'
\* array is modelled by the set of its elements (the code takes its truth
\* value and its max).
Responses ==
    { [kind |-> "ok", locations |-> l, dates |-> d] : l \in Schedules, d \in SUBSET DateKeys }
    \cup { [kind |-> k, locations |-> << >>, dates |-> {}] :
             k \in {"not_json", "no_locations", "no_dates"} }

NoResponse == [kind |-> "none", locations |-> << >>, dates |-> {}]

\* the events a list call over [lo, hi) may return: any of the events of those days
RECURSIVE Pick(_, _)
Pick(T, n) ==
    IF n = 0 THEN << >>
    ELSE IF n \in T THEN Append(Pick(T, n - 1), ExistingEvents[n]) ELSE Pick(T, n - 1)

ListResults(lo, hi) ==
    LET inRange == { i \in 1..Len(ExistingEvents) :
                       LET d == ExistingEvents[i].date
                       IN  lo <= DateTime(year, MonthOf(d), DayOf(d))
                           /\ DateTime(year, MonthOf(d), DayOf(d)) < hi }
    IN  { Pick(T, Len(ExistingEvents)) : T \in SUBSET inRange }

----------------------------------------------------------------------------
(* extract_sf_locations *)

\* variant: the filter keeps a date equal to the stored one (>= for >)
FilterLocationsInclusive(locs, latest) ==
    IF latest # None
      THEN [d \in { k \in DOMAIN locs : ~StrLess(k, latest) } |-> locs[d]]
      ELSE locs

\* lines 84-89: keep the dates after the stored one, if one is stored
FilterLocations(locs, latest) ==
    IF latest # None
      THEN [d \in { k \in DOMAIN locs : StrLess(latest, k) } |-> locs[d]]
      ELSE locs

\* line 92: if locations and all_dates
HasNewData(locs, all_dates) == DOMAIN locs # {} /\ all_dates # {}

\* variant: the file is rewritten when the newest date equals the stored one
AdvancesOrEqual(latest, newest_date) == latest = None \/ ~StrLess(newest_date, latest)

\* line 94: if not latest_parsed_date or newest_date > latest_parsed_date
Advances(latest, newest_date) == latest = None \/ StrLess(latest, newest_date)

\* variant: the newest date is taken among the dates that survived the filter
UpdatedWatermarkOfSurvivors(locs, all_dates, latest, stored) ==
    IF HasNewData(locs, all_dates) /\ Advances(latest, StrMax(DOMAIN locs))
      THEN StrMax(DOMAIN locs)
      ELSE stored

\* lines 92-96: the content of the watermark file after the update step
UpdatedWatermark(locs, all_dates, latest, stored) ==
    IF HasNewData(locs, all_dates) /\ Advances(latest, StrMax(all_dates))
      THEN StrMax(all_dates)
      ELSE stored

\* lines 92-95: whether the update step opens the watermark file for writing
WritesWatermark(locs, all_dates, latest) ==
    HasNewData(locs, all_dates) /\ Advances(latest, StrMax(all_dates))

\* variant: the except branch returns without closing the session
LeaveAsIs(b) == b

\* lines 106-107: if 'browser' in locals(): browser.close()
CloseIfBound(b) == IF b # "unbound" THEN "closed" ELSE b

\* lines 221-222 and 24-28: the run starts and reads the watermark file
StartRun ==
    /\ pc = "idle"
    /\ pc' = "connect"
    /\ latest_parsed_date' = wmFile
    /\ wmAtStart' = wmFile
    /\ browser' = "unbound"
    /\ response' = NoResponse
    /\ sf_locations' = << >>
    /\ returned' = "pending"
    /\ calendar_id' = None
    /\ calls' = << >>
    /\ events' = << >>
    /\ toDelete' = << >>
    /\ pending' = << >>
    /\ outcome' = "none"
    /\ wrote' = FALSE
    /\ UNCHANGED <<wmFile, calIdFile>>

\* lines 32-35: connect_over_cdp returns the session or raises
Connect ==
    /\ pc = "connect"
    /\ \E ok \in BOOLEAN :
         /\ browser' = IF ok THEN "open" ELSE browser
         /\ pc' = IF ok THEN "fetch" ELSE "except"
    /\ UNCHANGED <<wmFile, calIdFile, latest_parsed_date, response, sf_locations,
                   returned, calendar_id, calls, events, toDelete, pending, outcome,
                   wmAtStart, wrote>>

\* lines 36-42: the page is loaded and the schedule element read, or a step raises
FetchSchedule ==
    /\ pc = "fetch"
    /\ \E ok \in BOOLEAN : pc' = IF ok THEN "extract" ELSE "except"
    /\ UNCHANGED <<wmFile, calIdFile, latest_parsed_date, browser, response,
                   sf_locations, returned, calendar_id, calls, events, toDelete, pending,
                   outcome, wmAtStart, wrote>>

\* lines 67-82: the extraction call and the parse of its text
CallExtraction ==
    /\ pc = "extract"
    /\ \E r \in Responses :
         /\ response' = r
         /\ pc' = IF r.kind = "ok" THEN "filter" ELSE "except"
    /\ UNCHANGED <<wmFile, calIdFile, latest_parsed_date, browser, sf_locations,
                   returned, calendar_id, calls, events, toDelete, pending, outcome,
                   wmAtStart, wrote>>

\* lines 84-102: filter, update the watermark file, close the session, return
FilterAndReturn ==
    /\ pc = "filter"
    /\ LET locations == FilterLocations(response.locations, latest_parsed_date)
           all_dates == response.dates
       IN  /\ wmFile' = UpdatedWatermark(locations, all_dates, latest_parsed_date, wmFile)
           /\ wrote' = WritesWatermark(locations, all_dates, latest_parsed_date)
           /\ sf_locations' = locations
    /\ browser' = "closed"
    /\ returned' = "dict"
    /\ pc' = "check"
    /\ UNCHANGED <<calIdFile, latest_parsed_date, response, calendar_id, calls,
                   events, toDelete, pending, outcome, wmAtStart>>

\* lines 104-108: the except branch
ExtractionFailed ==
    /\ pc = "except"
    /\ browser' = CloseIfBound(browser)
    /\ returned' = "None"
    /\ pc' = "check"
    /\ UNCHANGED <<wmFile, calIdFile, latest_parsed_date, response, sf_locations,
                   calendar_id, calls, events, toDelete, pending, outcome, wmAtStart, wrote>>

----------------------------------------------------------------------------
(* FoodTruckCalendar and update_calendar *)

Call(op, a, b) == [op |-> op, cal |-> calendar_id, a |-> a, b |-> b]

\* variant: the run stops only on None (if sf_locations is None)
NotExtractedNoneOnly(kind, locs) == kind = "None"

\* line 224: if not sf_locations (None and the empty dict are both falsy)
NotExtracted(kind, locs) == kind = "None" \/ DOMAIN locs = {}

\* variant: the range ends at 00:00 of the last day (no timedelta(days=1))
ClearRangeWithoutLastDay(schedule) ==
    LET dates == Sorted(DOMAIN schedule)
        first == dates[1]
        last  == dates[Len(dates)]
    IN  [start_date |-> DateTime(year, MonthOf(first), DayOf(first)),
         end_date   |-> DateTime(year, MonthOf(last), DayOf(last))]

\* lines 164-168: the range to clear, [start_date, end_date)
ClearRange(schedule) ==
    LET dates == Sorted(DOMAIN schedule)
        first == dates[1]
        last  == dates[Len(dates)]
    IN  [start_date |-> DateTime(year, MonthOf(first), DayOf(first)),
         end_date   |-> DateTime(year, MonthOf(last), DayOf(last)) + 1]

\* lines 172-174: the (date, position) pairs the two nested loops visit.  The
\* dict is visited here in the order of its sorted keys: the order of the
\* dates changes which insert comes first, nothing else.
RECURSIVE Visits(_, _)
Visits(schedule, dates) ==
    IF dates = << >> THEN << >>
    ELSE [i \in 1..Len(schedule[Head(dates)]) |-> <<Head(dates), i>>]
         \o Visits(schedule, Tail(dates))

\* lines 175-204: building event_body reads every required field of the entry
CanBuildEvent(event) == \A i \in 1..Len(RequiredFields) : RequiredFields[i] \in DOMAIN event

\* lines 224-226: nothing extracted, the run returns
SkipUpdate ==
    /\ pc = "check"
    /\ NotExtracted(returned, sf_locations)
    /\ outcome' = "aborted"
    /\ pc' = "idle"
    /\ UNCHANGED <<wmFile, calIdFile, latest_parsed_date, browser, response,
                   sf_locations, returned, calendar_id, calls, events, toDelete, pending,
                   wmAtStart, wrote>>

\* lines 232-233: authenticate() builds the service, or raises out of the run
Authenticate ==
    /\ pc = "check"
    /\ ~NotExtracted(returned, sf_locations)
    /\ \E ok \in BOOLEAN :
         /\ pc' = IF ok THEN "calendar" ELSE "idle"
         /\ outcome' = IF ok THEN outcome ELSE "raised"
    /\ UNCHANGED <<wmFile, calIdFile, latest_parsed_date, browser, response,
                   sf_locations, returned, calendar_id, calls, events, toDelete, pending,
                   wmAtStart, wrote>>

\* lines 133-141: the identifier file exists: read it and get the calendar
GetCalendar ==
    /\ pc = "calendar"
    /\ calIdFile
    /\ calendar_id' = <<"id">>
    /\ calls' = Append(calls, [op |-> "get", cal |-> <<"id">>, a |-> 0, b |-> 0])
    /\ \E ok \in BOOLEAN :
         /\ pc' = IF ok THEN "create" ELSE "idle"
         /\ outcome' = IF ok THEN outcome ELSE "raised"
    /\ UNCHANGED <<wmFile, calIdFile, latest_parsed_date, browser, response,
                   sf_locations, returned, events, toDelete, pending, wmAtStart, wrote>>

\* line 133: the identifier file does not exist; the method falls off its end
NoCalendarFile ==
    /\ pc = "calendar"
    /\ ~calIdFile
    /\ pc' = "create"
    /\ UNCHANGED <<wmFile, calIdFile, latest_parsed_date, browser, response,
                   sf_locations, returned, calendar_id, calls, events, toDelete, pending,
                   outcome, wmAtStart, wrote>>

\* lines 164-170 and 146-150: compute the range and list its events; a list
\* call that raises is caught at line 158 and the inserts follow.  On an empty
\* schedule dates[0] raises IndexError out of the run.
ListEvents ==
    /\ pc = "create"
    /\ IF DOMAIN sf_locations = {}
         THEN /\ outcome' = "raised"
              /\ pc' = "idle"
              /\ UNCHANGED <<calls, events, toDelete, pending>>
         ELSE /\ LET r == ClearRange(sf_locations)
                 IN  /\ calls' = Append(calls, Call("list", r.start_date, r.end_date))
                     /\ \/ \E items \in ListResults(r.start_date, r.end_date) :
                              /\ events' = items
                              /\ toDelete' = items
                              /\ pc' = "clear"
                        \/ /\ events' = << >>
                           /\ toDelete' = << >>
                           /\ pc' = "insert"
              /\ pending' = Visits(sf_locations, Sorted(DOMAIN sf_locations))
              /\ outcome' = outcome
    /\ UNCHANGED <<wmFile, calIdFile, latest_parsed_date, browser, response,
                   sf_locations, returned, calendar_id, wmAtStart, wrote>>

\* lines 152-156 and 158-159: delete the next listed event; a delete that
\* raises leaves the loop through the except clause of line 158
DeleteEvent ==
    /\ pc = "clear"
    /\ toDelete # << >>
    /\ calls' = Append(calls, Call("delete", Head(toDelete).id, 0))
    /\ \E ok \in BOOLEAN :
         /\ toDelete' = IF ok THEN Tail(toDelete) ELSE toDelete
         /\ pc' = IF ok THEN "clear" ELSE "insert"
    /\ UNCHANGED <<wmFile, calIdFile, latest_parsed_date, browser, response,
                   sf_locations, returned, calendar_id, events, pending, outcome,
                   wmAtStart, wrote>>

\* line 157: the delete loop is over
Cleared ==
    /\ pc = "clear"
    /\ toDelete = << >>
    /\ pc' = "insert"
    /\ UNCHANGED <<wmFile, calIdFile, latest_parsed_date, browser, response,
                   sf_locations, returned, calendar_id, calls, events, toDelete, pending,
                   outcome, wmAtStart, wrote>>

\* lines 174-211: build the event of the next entry and insert it; an insert
\* that raises is caught at line 210 and the loop goes on
InsertEvent ==
    /\ pc = "insert"
    /\ pending # << >>
    /\ LET date  == Head(pending)[1]
           event == sf_locations[date][Head(pending)[2]]
       IN  /\ CanBuildEvent(event)
           /\ calls' = Append(calls, Call("insert", date, Head(pending)[2]))
    /\ pending' = Tail(pending)
    /\ UNCHANGED <<pc, wmFile, calIdFile, latest_parsed_date, browser, response,
                   sf_locations, returned, calendar_id, events, toDelete, outcome,
                   wmAtStart, wrote>>

\* lines 175-187: an entry lacks a field, event[...] raises KeyError out of the run
BuildEventRaises ==
    /\ pc = "insert"
    /\ pending # << >>
    /\ ~CanBuildEvent(sf_locations[Head(pending)[1]][Head(pending)[2]])
    /\ outcome' = "raised"
    /\ pc' = "idle"
    /\ UNCHANGED <<wmFile, calIdFile, latest_parsed_date, browser, response,
                   sf_locations, returned, calendar_id, calls, events, toDelete, pending,
                   wmAtStart, wrote>>

\* line 237: every entry was visited
Finish ==
    /\ pc = "insert"
    /\ pending = << >>
    /\ outcome' = "updated"
    /\ pc' = "idle"
    /\ UNCHANGED <<wmFile, calIdFile, latest_parsed_date, browser, response,
                   sf_locations, returned, calendar_id, calls, events, toDelete, pending,
                   wmAtStart, wrote>>

----------------------------------------------------------------------------
(* The program *)

\* before the first run: no watermark was ever written; the identifier file
\* is there or not
Init ==
    /\ pc = "idle"
    /\ wmFile = None
    /\ calIdFile \in BOOLEAN
    /\ latest_parsed_date = None
    /\ browser = "unbound"
    /\ response = NoResponse
    /\ sf_locations = << >>
    /\ returned = "pending"
    /\ calendar_id = None
    /\ calls = << >>
    /\ events = << >>
    /\ toDelete = << >>
    /\ pending = << >>
    /\ outcome = "none"
    /\ wmAtStart = None
    /\ wrote = FALSE

Next ==
    \/ StartRun
    \/ Connect
    \/ FetchSchedule
    \/ CallExtraction
    \/ FilterAndReturn
    \/ ExtractionFailed
    \/ SkipUpdate
    \/ Authenticate
    \/ GetCalendar
    \/ NoCalendarFile
    \/ ListEvents
    \/ DeleteEvent
    \/ Cleared
    \/ InsertEvent
    \/ BuildEventRaises
    \/ Finish

Spec == Init /\ [][Next]_vars

----------------------------------------------------------------------------
(* Properties *)

CallsOf(ops) == { i \in 1..Len(calls) : calls[i].op \in ops }

RunOver == pc = "idle" /\ outcome # "none"

\* the day a date key names, counted from January 1st of the year
DayNumber(k) == DateTime(year, MonthOf(k), DayOf(k))

\* every (date, position) of the schedule handed to the reconciler
EntriesOf(schedule) ==
    UNION { { <<k, i>> : i \in 1..Len(schedule[k]) } : k \in DOMAIN schedule }

\* C1: when extraction failed (returned None) or the filtered schedule is
\* empty, the run has issued no calendar API call, holds the watermark it
\* started with, and ends without updating.
C1_FailedExtractionTouchesNothing ==
    (returned = "None" \/ (returned = "dict" /\ DOMAIN sf_locations = {}))
        => /\ calls = << >>
           /\ wmFile = wmAtStart
           /\ ~wrote
           /\ pc = "idle" => outcome = "aborted"

\* C1 witness: a run ended after the extraction text failed to parse, with the
\* session having been opened, while a watermark was stored
C1_Witness ==
    /\ RunOver
    /\ response.kind = "not_json"
    /\ returned = "None"
    /\ wmAtStart # None

\* C2 as stated: after a run that observed a non-empty list of dates the
\* persisted watermark is max(stored watermark, max of the observed dates),
\* also when no schedule entry survived the filter.
C2_WatermarkIsMaxOfObserved ==
    (RunOver /\ response.kind = "ok" /\ response.dates # {})
        => wmFile = StrMax({wmAtStart, StrMax(response.dates)})

\* C2 amended: after the update step of a run that observed a non-empty list
\* of dates, the persisted watermark is max(stored watermark, max of ALL
\* observed dates) if at least one date key survived the filter, and the
\* stored watermark unchanged if none survived.
C2_WatermarkIsMaxWhenSomethingSurvives ==
    (returned = "dict" /\ response.dates # {})
        => IF DOMAIN sf_locations # {}
             THEN wmFile = StrMax({wmAtStart, StrMax(response.dates)})
             ELSE wmFile = wmAtStart

\* C2 witness: an observed date lies beyond every surviving key and the
\* watermark moved to it
C2_Witness ==
    /\ returned = "dict"
    /\ response.dates # {}
    /\ DOMAIN sf_locations # {}
    /\ wmAtStart # None
    /\ StrLess(StrMax(DOMAIN sf_locations), StrMax(response.dates))
    /\ wmFile = StrMax(response.dates)

\* C3 as stated: when the identifier file is missing, or the get call of the
\* stored identifier failed, the run has made no list, delete or insert call
\* and ends with a failure.
C3_MissingCalendarFailsFast ==
    LET getFailed == /\ RunOver
                     /\ calls # << >>
                     /\ calls[Len(calls)].op = "get"
    IN  (~calIdFile \/ getFailed)
            => /\ CallsOf({"list", "delete", "insert"}) = {}
               /\ (RunOver /\ ~NotExtracted(returned, sf_locations)) => outcome = "raised"

\* C4 as stated: once the clearing is over, a delete call was attempted for
\* every event the list call returned.
C4_EveryListedEventGetsADelete ==
    pc = "insert"
        => \A n \in 1..Len(events) :
              \E i \in CallsOf({"delete"}) : calls[i].a = events[n].id

\* C5: a step never moves the persisted watermark backward in the
\* lexicographic order, and the step that rewrites the file stores a value
\* strictly greater than the one stored before (or none was stored).
C5_WatermarkMonotone ==
    [][ /\ ~StrLess(wmFile', wmFile)
        /\ (wrote' /\ ~wrote) => (wmFile = None \/ StrLess(wmFile, wmFile')) ]_vars

\* C5 witness: a run rewrote the file over a stored watermark
C5_Witness ==
    /\ wrote
    /\ wmAtStart # None
    /\ wmFile # wmAtStart

\* C6: the returned schedule has exactly the extracted keys strictly greater
\* than the stored watermark, each with its extracted entry list; the key
\* equal to the watermark is dropped; with no watermark it is the extracted
\* schedule.
C6_FilterKeepsStrictlyNewer ==
    returned = "dict"
        => /\ DOMAIN sf_locations =
                { k \in DOMAIN response.locations :
                    wmAtStart = None \/ StrLess(wmAtStart, k) }
           /\ \A k \in DOMAIN sf_locations : sf_locations[k] = response.locations[k]
           /\ wmAtStart # None => wmAtStart \notin DOMAIN sf_locations
           /\ wmAtStart = None => sf_locations = response.locations

\* C6 witness: the extracted schedule has a key equal to the watermark and a
\* later key; the later one is returned
C6_Witness ==
    /\ returned = "dict"
    /\ wmAtStart # None
    /\ wmAtStart \in DOMAIN response.locations
    /\ DOMAIN sf_locations # {}

\* C7: the one list call of a reconciliation covers [earliest day of the
\* whole schedule, latest day + 1), every delete is of a listed event of that
\* range, and no delete call follows an insert call.
C7_ClearRangeThenInserts ==
    /\ Cardinality(CallsOf({"list"})) <= 1
    /\ \A i \in CallsOf({"list"}) :
          /\ \A k \in DOMAIN sf_locations : calls[i].a <= DayNumber(k) /\ DayNumber(k) < calls[i].b
          /\ \E k \in DOMAIN sf_locations : calls[i].a = DayNumber(k)
          /\ \E k \in DOMAIN sf_locations : calls[i].b = DayNumber(k) + 1
          /\ \A j \in CallsOf({"delete", "insert"}) : i < j
          /\ \A j \in CallsOf({"delete"}) :
                \E n \in 1..Len(ExistingEvents) :
                   /\ ExistingEvents[n].id = calls[j].a
                   /\ calls[i].a <= DayNumber(ExistingEvents[n].date)
                   /\ DayNumber(ExistingEvents[n].date) < calls[i].b
    /\ CallsOf({"delete", "insert"}) # {} => CallsOf({"list"}) # {}
    /\ \A i \in CallsOf({"insert"}) : \A j \in CallsOf({"delete"}) : j < i

\* C7 witness: a run over a schedule of several dates deleted two events and
\* then inserted
C7_Witness ==
    /\ RunOver
    /\ Cardinality(DOMAIN sf_locations) >= 2
    /\ Cardinality(CallsOf({"delete"})) >= 2
    /\ CallsOf({"insert"}) # {}

\* C8: once extraction has returned, the browser session is not open: it was
\* closed, or it was never established.
C8_SessionClosedOnReturn ==
    returned # "pending" => browser # "open"

\* C8 witness: extraction failed after the session was established, and the
\* session is closed
C8_Witness ==
    /\ returned = "None"
    /\ browser = "closed"

\* C9 as stated: every entry of the schedule the reconciler works on has all
\* five required fields.
C9_ReconcilerSeesOnlyCompleteEntries ==
    pc \in {"create", "clear", "insert"}
        => \A e \in EntriesOf(sf_locations) : CanBuildEvent(sf_locations[e[1]][e[2]])

\* C10 as stated: a run that rewrote the watermark has attempted an insert
\* for every entry of every date key that survived the filter.
C10_AdvanceImpliesInsertsAttempted ==
    (RunOver /\ wrote)
        => \A e \in EntriesOf(sf_locations) :
              \E i \in CallsOf({"insert"}) : calls[i].a = e[1] /\ calls[i].b = e[2]

====
